---- MODULE Spec2Model ----
(***************************************************************************)
(* The encrypted-file table engine of src/database.py: DatabaseEngine      *)
(* (database directories, the per-database secret file, the per-engine     *)
(* connection tracking), DB (connect / disconnect / is_connected) and      *)
(* Table (insert / search / update / delete over an encrypted table file). *)
(*                                                                         *)
(* Every OS process builds its own DatabaseEngine over the same directory: *)
(* the file system is shared, active_connections and connection_queues are *)
(* per process.  A process is single-threaded; the only place where it can *)
(* be observed in the middle of a call is the poll loop of DB.connect.     *)
(* Cryptography is symbolic: a ciphertext records the key, the IV and the  *)
(* plaintext it was made from and opens only under the same key and IV.    *)
(***************************************************************************)
EXTENDS Integers, Sequences, FiniteSets, TLC

(***************************************************************************)
(* Bounds                                                                  *)
(***************************************************************************)
NumProcs == 2
NumHandles == 2
NumDatabases == 2
NumSecrets == 2
NumSalts == 2
NumIVs == 1
MaxRows == 2

\* os.getpid() of each process
Procs == 1..NumProcs
\* the DB objects a process may build
Handles == 1..NumHandles
\* database names
Databases == 1..NumDatabases
\* str(uuid.uuid4())
Secrets == 1..NumSecrets
\* os.urandom(16), as a salt and as an initialization vector
Salts == 1..NumSalts
IVs == 1..NumIVs

\* Python's None, as the value of active_connections[name]
None == 0

\* DatabaseEngine.__init__: passphrase="supersecret"
passphrase == "supersecret"

(***************************************************************************)
(* Python values, dicts and json                                           *)
(***************************************************************************)
PyInt(n) == [ty |-> "int", i |-> n, s |-> ""]
PyStr(t) == [ty |-> "str", i |-> 0, s |-> t]
\* the float n.0
PyFloat(n) == [ty |-> "float", i |-> n, s |-> ""]
PyBool(b) == [ty |-> "bool", i |-> IF b THEN 1 ELSE 0, s |-> ""]
PyNone == [ty |-> "NoneType", i |-> 0, s |-> ""]
\* a value json cannot serialize (a set, an object)
PyObject == [ty |-> "object", i |-> 0, s |-> ""]

\* Python's ==: numbers compare by value, and bool is a subclass of int, so
\* True == 1 == 1.0 and False == 0
PyEq(a, b) ==
  IF a.ty \in {"int", "bool", "float"} /\ b.ty \in {"int", "bool", "float"}
  THEN a.i = b.i
  ELSE a = b

\* A dict is the sequence of its items in insertion order, keys distinct.
Item(k, v) == [k |-> k, v |-> v]

Keys(dict) == {dict[n].k : n \in 1..Len(dict)}

\* dict.get(k): the value stored under k, None when there is none
Get(dict, k) ==
  IF k \in Keys(dict)
  THEN dict[CHOOSE n \in 1..Len(dict) : dict[n].k = k].v
  ELSE PyNone

\* dict.update(other): a key already present keeps its place and takes the
\* new value, a new key is appended
RECURSIVE DictUpdate(_, _)
DictUpdate(dict, other) ==
  IF other = <<>> THEN dict
  ELSE LET it == Head(other)
           one == IF it.k \in Keys(dict)
                  THEN [n \in 1..Len(dict) |->
                          IF dict[n].k = it.k THEN it ELSE dict[n]]
                  ELSE Append(dict, it)
       IN DictUpdate(one, Tail(other))

\* json tokens
Tok(kind, n, t) == [kind |-> kind, i |-> n, s |-> t]
Punct(c) == Tok(c, 0, "")

\* json.dumps of one value, writing a boolean as the number it equals
DumpsValueBoolAsNumber(v) ==
  CASE v.ty \in {"int", "bool"} -> Tok("number", v.i, "")
    [] v.ty = "float" -> Tok("number", v.i, ".0")
    [] v.ty = "str" -> Tok("string", 0, v.s)
    [] v.ty = "NoneType" -> Tok("null", 0, "")
    [] OTHER -> Tok("TypeError", 0, "")

\* json.dumps of one value; "TypeError" when it is not serializable
DumpsValue(v) ==
  CASE v.ty = "int" -> Tok("number", v.i, "")
    [] v.ty = "float" -> Tok("number", v.i, ".0")
    [] v.ty = "str" -> Tok("string", 0, v.s)
    [] v.ty = "bool" -> Tok(IF v.i = 1 THEN "true" ELSE "false", 0, "")
    [] v.ty = "NoneType" -> Tok("null", 0, "")
    [] OTHER -> Tok("TypeError", 0, "")

Serializable(dict) ==
  \A n \in 1..Len(dict) : DumpsValue(dict[n].v).kind # "TypeError"

RECURSIVE DumpsItems(_)
DumpsItems(dict) ==
  IF dict = <<>> THEN <<>>
  ELSE <<Tok("string", 0, Head(dict).k), Punct(":"), DumpsValue(Head(dict).v)>>
       \o (IF Tail(dict) = <<>> THEN <<>> ELSE <<Punct(",")>>)
       \o DumpsItems(Tail(dict))

\* json.dumps(data): the text of the object, token by token
Dumps(dict) == <<Punct("{")>> \o DumpsItems(dict) \o <<Punct("}")>>

\* json.loads of one value token
LoadsValue(t) ==
  CASE t.kind = "number" -> IF t.s = ".0" THEN PyFloat(t.i) ELSE PyInt(t.i)
    [] t.kind = "string" -> PyStr(t.s)
    [] t.kind = "true" -> PyBool(TRUE)
    [] t.kind = "false" -> PyBool(FALSE)
    [] OTHER -> PyNone

\* the items of an object's text, from token n on; a repeated key keeps the
\* last value, as a Python dict does
RECURSIVE LoadsItems(_, _, _)
LoadsItems(text, n, acc) ==
  IF n + 2 > Len(text) - 1 THEN acc
  ELSE LoadsItems(text, n + 4,
                  DictUpdate(acc, <<Item(text[n].s, LoadsValue(text[n + 2]))>>))

\* whether a token sequence is the text of a json object of scalars
WellFormed(text) ==
  /\ Len(text) >= 2
  /\ text[1] = Punct("{")
  /\ text[Len(text)] = Punct("}")
  /\ Len(text) = 2 \/ (Len(text) - 1) % 4 = 0
  /\ \A n \in 2..(Len(text) - 1) :
       CASE (n - 2) % 4 = 0 -> text[n].kind = "string"
         [] (n - 2) % 4 = 1 -> text[n] = Punct(":")
         [] (n - 2) % 4 = 2 ->
              text[n].kind \in {"number", "string", "true", "false", "null"}
         [] OTHER -> text[n] = Punct(",")

\* json.loads(text)
Loads(text) == LoadsItems(text, 2, <<>>)

(***************************************************************************)
(* Symbolic cryptography                                                   *)
(***************************************************************************)
\* PBKDF2HMAC(SHA256, salt).derive(passphrase)
Derive(pass, salt) == [kdf |-> "pbkdf2", pass |-> pass, salt |-> salt]

\* hashes.Hash(SHA256) of some bytes
Sha256(bytes) == [sha256 |-> bytes]

\* pad, AES-CBC encrypt
AesCbcEncrypt(key, iv, data) == [key |-> key, iv |-> iv, data |-> data]

\* AES-CBC decrypt, unpad: the plaintext under the key and IV it was made
\* with; otherwise the unpadder (or the decoding after it) raises
AesCbcOpens(key, iv, ct) == ct.key = key /\ ct.iv = iv

(***************************************************************************)
(* State                                                                   *)
(***************************************************************************)
VARIABLES
  dbdir,               \* [name -> whether databases/<name> exists]
  keyfile,             \* [name -> the bytes of database.key, {} when absent]
  tablefile,           \* [name -> <TableName>.table: exists, lines]
  active_connections,  \* per process: DatabaseEngine.active_connections
  connection_queues,   \* per process: DatabaseEngine.connection_queues
  handle,              \* per process: its DB objects
  enqueued,            \* [name -> the callers inside connect, oldest first]
  untouched,           \* [name -> the rows inserted and not selected since]
  damaged,             \* [name -> a rewrite of the table file was cut short
                       \*  part-way and nothing has read the file since]
  ret                  \* the last call or step: what it was and how it ended

vars == <<dbdir, keyfile, tablefile, active_connections, connection_queues,
          handle, enqueued, untouched, damaged, ret>>

fs == <<dbdir, keyfile, tablefile>>
tracking == <<active_connections, connection_queues>>

NoTable == [exists |-> FALSE, lines |-> <<>>]
NoHandle == [built |-> FALSE, database_name |-> 1, connected |-> FALSE,
             pc |-> "idle"]

Ret(op, p, h, d, res) ==
  [op |-> op, p |-> p, h |-> h, d |-> d, res |-> res, arg |-> <<>>,
   arg2 |-> <<>>, out |-> <<>>]

\* DatabaseEngine.__init__ of every process, over a directory with no database
Init ==
  /\ dbdir = [d \in Databases |-> FALSE]
  /\ keyfile = [d \in Databases |-> {}]
  /\ tablefile = [d \in Databases |-> NoTable]
  /\ active_connections = [p \in Procs |-> <<>>]
  /\ connection_queues = [p \in Procs |-> <<>>]
  /\ handle = [p \in Procs |-> [h \in Handles |-> NoHandle]]
  /\ enqueued = [d \in Databases |-> <<>>]
  /\ untouched = [d \in Databases |-> {}]
  /\ damaged = [d \in Databases |-> FALSE]
  /\ ret = Ret("init", 0, 0, 0, "ok")

\* a single-threaded process is inside at most one call: none of its DB
\* objects is in the poll loop of connect
Idle(p) == \A h \in Handles : handle[p][h].pc = "idle"

(***************************************************************************)
(* DatabaseEngine                                                          *)
(***************************************************************************)
\* _encrypt_key: iv + AES-CBC(PBKDF2(passphrase, salt), iv, db_key); the salt
\* is used for the derivation and is not part of what is returned
EncryptKey(db_key, salt, iv) ==
  [iv |-> iv, data |-> AesCbcEncrypt(Derive(passphrase, salt), iv, db_key)]

\* _decrypt_key, with the salt its os.urandom(16) draws
DecryptKey(encrypted_key, salt) ==
  LET iv == encrypted_key.iv
      encrypted_data == encrypted_key.data
      aes_key == Derive(passphrase, salt)
  IN IF AesCbcOpens(aes_key, iv, encrypted_data)
     THEN [res |-> "ok", out |-> <<encrypted_data.data>>]
     ELSE [res |-> "ValueError", out |-> <<>>]

\* _initialize_database_if_needed raises FileNotFoundError
InitializeFails(p, d) ==
  d \notin DOMAIN active_connections[p] /\ ~dbdir[d]

\* _initialize_database_if_needed, when it does not raise
InitializedActive(p, d) ==
  IF d \in DOMAIN active_connections[p]
  THEN active_connections[p]
  ELSE (d :> None) @@ active_connections[p]

InitializedQueues(p, d) ==
  IF d \in DOMAIN active_connections[p]
  THEN connection_queues[p]
  ELSE (d :> <<>>) @@ connection_queues[p]

\* dict.pop(name, None)
Pop(dict, d) == [x \in DOMAIN dict \ {d} |-> dict[x]]

\* create_database without its check that the directory exists
create_database_overwrite(p, d, db_key, salt, iv) ==
  /\ Idle(p)
  /\ dbdir' = [dbdir EXCEPT ![d] = TRUE]
  /\ keyfile' = [keyfile EXCEPT ![d] = {EncryptKey(db_key, salt, iv)}]
  /\ ret' = Ret("create_database", p, 0, d, "ok")
  /\ UNCHANGED <<tablefile, tracking, handle, enqueued, untouched, damaged>>

\* db_key, salt and iv are what uuid.uuid4() and os.urandom(16) draw
create_database(p, d, db_key, salt, iv) ==
  /\ Idle(p)
  /\ IF dbdir[d]
     THEN /\ ret' = Ret("create_database", p, 0, d, "FileExistsError")
          /\ UNCHANGED <<fs, tracking, handle, enqueued, untouched, damaged>>
     ELSE /\ dbdir' = [dbdir EXCEPT ![d] = TRUE]
          /\ keyfile' = [keyfile EXCEPT ![d] = {EncryptKey(db_key, salt, iv)}]
          /\ ret' = Ret("create_database", p, 0, d, "ok")
          /\ UNCHANGED <<tablefile, tracking, handle, enqueued, untouched, damaged>>

\* delete_database removing database.key and the log, and no table file
delete_database_keeps_tables(p, d) ==
  /\ Idle(p)
  /\ IF ~dbdir[d]
     THEN /\ ret' = Ret("delete_database", p, 0, d, "FileNotFoundError")
          /\ UNCHANGED <<fs, tracking, handle, enqueued, untouched, damaged>>
     ELSE /\ keyfile' = [keyfile EXCEPT ![d] = {}]
          /\ ret' = Ret("delete_database", p, 0, d, "ok")
          /\ UNCHANGED <<dbdir, tablefile, tracking, handle, enqueued,
                         untouched, damaged>>

delete_database(p, d) ==
  /\ Idle(p)
  /\ IF ~dbdir[d]
     THEN /\ ret' = Ret("delete_database", p, 0, d, "FileNotFoundError")
          /\ UNCHANGED <<fs, tracking, handle, enqueued, untouched, damaged>>
     ELSE IF d \in DOMAIN active_connections[p]
             /\ active_connections[p][d] # None
     THEN /\ ret' = Ret("delete_database", p, 0, d, "RuntimeError")
          /\ UNCHANGED <<fs, tracking, handle, enqueued, untouched, damaged>>
     ELSE /\ dbdir' = [dbdir EXCEPT ![d] = FALSE]
          /\ keyfile' = [keyfile EXCEPT ![d] = {}]
          /\ tablefile' = [tablefile EXCEPT ![d] = NoTable]
          /\ active_connections' =
               [active_connections EXCEPT ![p] = Pop(@, d)]
          /\ connection_queues' =
               [connection_queues EXCEPT ![p] = Pop(@, d)]
          /\ untouched' = [untouched EXCEPT ![d] = {}]
          /\ damaged' = [damaged EXCEPT ![d] = FALSE]
          /\ ret' = Ret("delete_database", p, 0, d, "ok")
          /\ UNCHANGED <<handle, enqueued>>

\* engine._decrypt_key applied to the bytes of database.key
decrypt_key(p, d) ==
  /\ Idle(p)
  /\ keyfile[d] # {}
  /\ \E encrypted_key \in keyfile[d], salt \in Salts :
       LET r == DecryptKey(encrypted_key, salt)
       IN ret' = [Ret("decrypt_key", p, 0, d, r.res) EXCEPT !.out = r.out]
  /\ UNCHANGED <<fs, tracking, handle, enqueued, untouched, damaged>>

(***************************************************************************)
(* DB                                                                      *)
(***************************************************************************)
is_connected(p, h) == handle[p][h].connected

\* _log_database opens databases/<name>/<name>.log for appending: it raises
\* FileNotFoundError when the directory is gone
LogDatabase(d) == IF dbdir[d] THEN "ok" ELSE "FileNotFoundError"

\* DB(engine, database_name)
NewDB(p, h, d) ==
  /\ Idle(p)
  /\ ~handle[p][h].built
  /\ IF InitializeFails(p, d)
     THEN /\ ret' = Ret("DB", p, h, d, "FileNotFoundError")
          /\ UNCHANGED <<fs, tracking, handle, enqueued, untouched, damaged>>
     ELSE /\ handle' = [handle EXCEPT ![p][h] =
                          [built |-> TRUE, database_name |-> d,
                           connected |-> FALSE, pc |-> "idle"]]
          /\ active_connections' =
               [active_connections EXCEPT ![p] = InitializedActive(p, d)]
          /\ connection_queues' =
               [connection_queues EXCEPT ![p] = InitializedQueues(p, d)]
          /\ ret' = Ret("DB", p, h, d, "ok")
          /\ UNCHANGED <<fs, enqueued, untouched, damaged>>

\* DB.connect up to its poll loop, without its check of _connected
connect_unchecked(p, h) ==
  LET d == handle[p][h].database_name
  IN /\ Idle(p)
     /\ handle[p][h].built
     /\ ~InitializeFails(p, d)
     /\ d \in DOMAIN InitializedQueues(p, d)
     /\ active_connections' =
          [active_connections EXCEPT ![p] = InitializedActive(p, d)]
     /\ connection_queues' =
          [connection_queues EXCEPT ![p] =
             [InitializedQueues(p, d) EXCEPT ![d] = Append(@, p)]]
     /\ handle' = [handle EXCEPT ![p][h].pc = "waiting"]
     /\ enqueued' = [enqueued EXCEPT ![d] = Append(@, <<p, h>>)]
     /\ ret' = Ret("connect", p, h, d, "waiting")
     /\ UNCHANGED <<fs, untouched, damaged>>

\* DB.connect up to its poll loop: the checks and queue.append(os.getpid())
connect(p, h) ==
  LET d == handle[p][h].database_name
  IN /\ Idle(p)
     /\ handle[p][h].built
     /\ IF handle[p][h].connected
        THEN /\ ret' = Ret("connect", p, h, d, "RuntimeError")
             /\ UNCHANGED <<fs, tracking, handle, enqueued, untouched, damaged>>
        ELSE IF InitializeFails(p, d)
        THEN /\ ret' = Ret("connect", p, h, d, "FileNotFoundError")
             /\ UNCHANGED <<fs, tracking, handle, enqueued, untouched, damaged>>
        ELSE IF d \notin DOMAIN InitializedQueues(p, d)
        THEN \* tracked in active_connections only: connection_queues[name]
             \* raises
             /\ ret' = Ret("connect", p, h, d, "KeyError")
             /\ UNCHANGED <<fs, tracking, handle, enqueued, untouched, damaged>>
        ELSE /\ active_connections' =
                  [active_connections EXCEPT ![p] = InitializedActive(p, d)]
             /\ connection_queues' =
                  [connection_queues EXCEPT ![p] =
                     [InitializedQueues(p, d) EXCEPT ![d] = Append(@, p)]]
             /\ handle' = [handle EXCEPT ![p][h].pc = "waiting"]
             /\ enqueued' = [enqueued EXCEPT ![d] = Append(@, <<p, h>>)]
             /\ ret' = Ret("connect", p, h, d, "waiting")
             /\ UNCHANGED <<fs, untouched, damaged>>

\* the poll loop of DB.connect ends: queue[0] == os.getpid(); the caller is
\* marked active and connected, then the two log lines are written
admit(p, h) ==
  LET d == handle[p][h].database_name
  IN /\ handle[p][h].pc = "waiting"
     /\ Head(connection_queues[p][d]) = p
     /\ active_connections' = [active_connections EXCEPT ![p][d] = p]
     /\ handle' = [handle EXCEPT ![p][h].pc = "idle",
                                 ![p][h].connected = TRUE]
     /\ enqueued' = [enqueued EXCEPT ![d] =
                       SelectSeq(@, LAMBDA c : c # <<p, h>>)]
     /\ ret' = Ret("admit", p, h, d, LogDatabase(d))
     /\ UNCHANGED <<fs, connection_queues, untouched, damaged>>

\* DB.disconnect
disconnect(p, h) ==
  LET d == handle[p][h].database_name
      active == [active_connections[p] EXCEPT ![d] = None]
  IN /\ Idle(p)
     /\ handle[p][h].built
     /\ IF ~handle[p][h].connected
        THEN /\ ret' = Ret("disconnect", p, h, d, "RuntimeError")
             /\ UNCHANGED <<fs, tracking, handle, enqueued, untouched, damaged>>
        ELSE IF d \notin DOMAIN connection_queues[p]
        THEN \* connection_queues[name] raises, after the marker was reset
             /\ active_connections' =
                  [active_connections EXCEPT ![p] = (d :> None) @@ @]
             /\ ret' = Ret("disconnect", p, h, d, "KeyError")
             /\ UNCHANGED <<fs, connection_queues, handle, enqueued, untouched, damaged>>
        ELSE IF connection_queues[p][d] = <<>>
        THEN \* popleft() of an empty deque raises
             /\ active_connections' = [active_connections EXCEPT ![p] = active]
             /\ ret' = Ret("disconnect", p, h, d, "IndexError")
             /\ UNCHANGED <<fs, connection_queues, handle, enqueued, untouched, damaged>>
        ELSE /\ active_connections' = [active_connections EXCEPT ![p] = active]
             /\ connection_queues' =
                  [connection_queues EXCEPT ![p][d] = Tail(@)]
             /\ handle' = [handle EXCEPT ![p][h].connected = FALSE]
             /\ ret' = Ret("disconnect", p, h, d, LogDatabase(d))
             /\ UNCHANGED <<fs, enqueued, untouched, damaged>>

(***************************************************************************)
(* Table: the row codec                                                    *)
(***************************************************************************)
\* bytes.hex() and bytes.fromhex()
Hex(bytes) == [hex |-> bytes]
FromHex(text) == text.hex

\* decryption_key[:16], the IV of every row
First16(key) == [first16 |-> key]

\* Table._decrypt_key: the SHA-256 of the bytes of database.key
TableDecryptKey(encrypted_key) == Sha256(encrypted_key)

\* Table._get_decryption_key; database.key is there (see HasKey)
GetDecryptionKey(d) == TableDecryptKey(CHOOSE bytes \in keyfile[d] : TRUE)
HasKey(d) == keyfile[d] # {}

\* Table._encrypt_data, for data json can serialize
EncryptData(data, decryption_key) ==
  Hex(AesCbcEncrypt(decryption_key, First16(decryption_key), Dumps(data)))

\* Table._decrypt_data returns (it raises ValueError otherwise)
Decrypts(encrypted_data, decryption_key) ==
  /\ AesCbcOpens(decryption_key, First16(decryption_key),
                 FromHex(encrypted_data))
  /\ WellFormed(FromHex(encrypted_data).data)

\* Table._decrypt_data, when it returns
DecryptData(encrypted_data, decryption_key) ==
  Loads(FromHex(encrypted_data).data)

\* any(...) in the place of all(...)
MatchesAnyCondition(row, conditions) ==
  \E n \in 1..Len(conditions) :
    PyEq(Get(row, conditions[n].k), conditions[n].v)

\* all(row.get(k) == v for k, v in conditions.items())
Matches(row, conditions) ==
  \A n \in 1..Len(conditions) :
    PyEq(Get(row, conditions[n].k), conditions[n].v)

\* the loop of Table.search over lines that all decrypt
RECURSIVE SearchRows(_, _, _)
SearchRows(lines, key, conditions) ==
  IF lines = <<>> THEN <<>>
  ELSE LET decrypted_row == DecryptData(Head(lines), key)
       IN (IF Matches(decrypted_row, conditions)
           THEN <<decrypted_row>> ELSE <<>>)
          \o SearchRows(Tail(lines), key, conditions)

\* Table.search on table file t of database d: how it ends, what it returns
Search(d, conditions) ==
  IF ~tablefile[d].exists \/ ~HasKey(d)
  THEN [res |-> "FileNotFoundError", out |-> <<>>]
  ELSE IF \E n \in 1..Len(tablefile[d].lines) :
            ~Decrypts(tablefile[d].lines[n], GetDecryptionKey(d))
  THEN [res |-> "ValueError", out |-> <<>>]
  ELSE [res |-> "ok",
        out |-> SearchRows(tablefile[d].lines, GetDecryptionKey(d),
                           conditions)]

\* a rewrite loop of update that returns the rows as they were before
RECURSIVE UpdateLinesReturnsStored(_, _, _, _, _)
UpdateLinesReturnsStored(lines, key, conditions, updates, acc) ==
  IF lines = <<>> THEN [acc EXCEPT !.res = "ok"]
  ELSE LET row_data == DecryptData(Head(lines), key)
           hit == Matches(row_data, conditions)
           new_data == IF hit THEN DictUpdate(row_data, updates) ELSE row_data
       IN IF ~Serializable(new_data)
          THEN [acc EXCEPT !.res = "TypeError"]
          ELSE UpdateLinesReturnsStored(Tail(lines), key, conditions, updates,
                 [res |-> "",
                  lines |-> Append(acc.lines, EncryptData(new_data, key)),
                  out |-> IF hit THEN Append(acc.out, row_data) ELSE acc.out])

\* the rewrite loop of Table.update over lines that all decrypt: the lines
\* written, the rows updated, and whether _encrypt_data raised TypeError,
\* which ends the loop with the lines written so far in the file
RECURSIVE UpdateLines(_, _, _, _, _)
UpdateLines(lines, key, conditions, updates, acc) ==
  IF lines = <<>> THEN [acc EXCEPT !.res = "ok"]
  ELSE LET row_data == DecryptData(Head(lines), key)
           hit == Matches(row_data, conditions)
           new_data == IF hit THEN DictUpdate(row_data, updates) ELSE row_data
       IN IF ~Serializable(new_data)
          THEN [acc EXCEPT !.res = "TypeError"]
          ELSE UpdateLines(Tail(lines), key, conditions, updates,
                 [res |-> "",
                  lines |-> Append(acc.lines, EncryptData(new_data, key)),
                  out |-> IF hit THEN Append(acc.out, new_data) ELSE acc.out])

\* a rewrite loop of delete that stops writing at the first row it deletes
RECURSIVE DeleteLinesStopAtMatch(_, _, _, _)
DeleteLinesStopAtMatch(lines, key, conditions, acc) ==
  IF lines = <<>> THEN [acc EXCEPT !.res = "ok"]
  ELSE LET row_data == DecryptData(Head(lines), key)
       IN DeleteLinesStopAtMatch(Tail(lines), key, conditions,
            IF Matches(row_data, conditions)
            THEN [acc EXCEPT !.out = Append(@, row_data), !.res = "stop"]
            ELSE IF acc.res = "stop" THEN acc
            ELSE [acc EXCEPT !.lines = Append(@, EncryptData(row_data, key))])

\* the rewrite loop of Table.delete over lines that all decrypt
RECURSIVE DeleteLines(_, _, _, _)
DeleteLines(lines, key, conditions, acc) ==
  IF lines = <<>> THEN [acc EXCEPT !.res = "ok"]
  ELSE LET row_data == DecryptData(Head(lines), key)
       IN DeleteLines(Tail(lines), key, conditions,
            IF Matches(row_data, conditions)
            THEN [acc EXCEPT !.out = Append(@, row_data)]
            ELSE [acc EXCEPT !.lines = Append(@, EncryptData(row_data, key))])

NoLines == [res |-> "", lines |-> <<>>, out |-> <<>>]

(***************************************************************************)
(* Table: the operations.  The class is bound to DB object h of process p  *)
(* (cls._db, set by @database); g is the DB object the call works on: the  *)
(* database argument, or h itself when the argument is left out.           *)
(***************************************************************************)
\* Table._is_connected
TableIsConnected(p, h) == handle[p][h].built /\ is_connected(p, h)

RowRet(op, p, h, g, res, arg, arg2, out) ==
  [Ret(op, p, h, handle[p][g].database_name, res)
     EXCEPT !.arg = arg, !.arg2 = arg2, !.out = out]

\* the rows of a set that the conditions of an update or delete do not select
Unselected(rows, conditions) == {r \in rows : ~Matches(r, conditions)}

\* a search, update or delete that passes the connection check reads the
\* table file of d
Accessed(p, h, d) ==
  IF TableIsConnected(p, h) THEN [damaged EXCEPT ![d] = FALSE] ELSE damaged

\* Table(**kwargs): building a row creates the table file when it is missing
NewRow(p, h) ==
  LET d == handle[p][h].database_name
  IN /\ Idle(p)
     /\ handle[p][h].built
     /\ IF ~dbdir[d]
        THEN /\ ret' = Ret("Table", p, h, d, "FileNotFoundError")
             /\ UNCHANGED <<fs, tracking, handle, enqueued, untouched, damaged>>
        ELSE /\ tablefile' = [tablefile EXCEPT ![d].exists = TRUE]
             /\ ret' = Ret("Table", p, h, d, "ok")
             /\ UNCHANGED <<dbdir, keyfile, tracking, handle, enqueued,
                            untouched, damaged>>

insert(p, h, g, row) ==
  LET d == handle[p][g].database_name
  IN /\ Idle(p)
     /\ handle[p][h].built /\ handle[p][g].built
     /\ Len(tablefile[d].lines) < MaxRows
     /\ UNCHANGED <<dbdir, keyfile, tracking, handle, enqueued, damaged>>
     /\ IF ~TableIsConnected(p, h)
        THEN /\ ret' = RowRet("insert", p, h, g, "RuntimeError", row, <<>>, <<>>)
             /\ UNCHANGED <<tablefile, untouched, damaged>>
        ELSE IF ~HasKey(d)
        THEN /\ ret' = RowRet("insert", p, h, g, "FileNotFoundError", row,
                              <<>>, <<>>)
             /\ UNCHANGED <<tablefile, untouched, damaged>>
        ELSE IF ~Serializable(row)
        THEN /\ ret' = RowRet("insert", p, h, g, "TypeError", row, <<>>, <<>>)
             /\ UNCHANGED <<tablefile, untouched, damaged>>
        ELSE /\ tablefile' =
                  [tablefile EXCEPT ![d] =
                     [exists |-> TRUE,
                      lines |-> Append(@.lines,
                                  EncryptData(row, GetDecryptionKey(d)))]]
             /\ untouched' = [untouched EXCEPT ![d] = @ \cup {row}]
             /\ ret' = RowRet("insert", p, h, g, "ok", row, <<>>, <<>>)

\* Table.search without its check of _is_connected()
search_unguarded(p, h, g, conditions) ==
  LET d == handle[p][g].database_name
      r == Search(d, conditions)
  IN /\ Idle(p)
     /\ handle[p][h].built /\ handle[p][g].built
     /\ UNCHANGED <<fs, tracking, handle, enqueued, untouched>>
     /\ damaged' = [damaged EXCEPT ![d] = FALSE]
     /\ ret' = RowRet("search", p, h, g, r.res, conditions, <<>>, r.out)

search(p, h, g, conditions) ==
  LET d == handle[p][g].database_name
      r == Search(d, conditions)
  IN /\ Idle(p)
     /\ handle[p][h].built /\ handle[p][g].built
     /\ UNCHANGED <<fs, tracking, handle, enqueued, untouched>>
     /\ damaged' = Accessed(p, h, d)
     /\ IF ~TableIsConnected(p, h)
        THEN ret' = RowRet("search", p, h, g, "RuntimeError", conditions,
                           <<>>, <<>>)
        ELSE ret' = RowRet("search", p, h, g, r.res, conditions, <<>>, r.out)

update(p, h, g, conditions, updates) ==
  LET d == handle[p][g].database_name
      rows_to_update == Search(d, conditions)
      w == UpdateLines(tablefile[d].lines, GetDecryptionKey(d), conditions,
                       updates, NoLines)
  IN /\ Idle(p)
     /\ handle[p][h].built /\ handle[p][g].built
     /\ UNCHANGED <<dbdir, keyfile, tracking, handle, enqueued>>
     /\ damaged' = Accessed(p, h, d)
     /\ untouched' = IF TableIsConnected(p, h)
                     THEN [untouched EXCEPT ![d] = Unselected(@, conditions)]
                     ELSE untouched
     /\ IF ~TableIsConnected(p, h)
        THEN /\ ret' = RowRet("update", p, h, g, "RuntimeError", conditions,
                              updates, <<>>)
             /\ UNCHANGED tablefile
        ELSE IF rows_to_update.res # "ok" \/ rows_to_update.out = <<>>
        THEN /\ ret' = RowRet("update", p, h, g, rows_to_update.res,
                              conditions, updates, <<>>)
             /\ UNCHANGED tablefile
        ELSE /\ tablefile' = [tablefile EXCEPT ![d].lines = w.lines]
             /\ ret' = RowRet("update", p, h, g, w.res, conditions, updates,
                              IF w.res = "ok" THEN w.out ELSE <<>>)

delete(p, h, g, conditions) ==
  LET d == handle[p][g].database_name
      rows_to_delete == Search(d, conditions)
      w == DeleteLines(tablefile[d].lines, GetDecryptionKey(d), conditions,
                       NoLines)
  IN /\ Idle(p)
     /\ handle[p][h].built /\ handle[p][g].built
     /\ UNCHANGED <<dbdir, keyfile, tracking, handle, enqueued>>
     /\ damaged' = Accessed(p, h, d)
     /\ untouched' = IF TableIsConnected(p, h)
                     THEN [untouched EXCEPT ![d] = Unselected(@, conditions)]
                     ELSE untouched
     /\ IF ~TableIsConnected(p, h)
        THEN /\ ret' = RowRet("delete", p, h, g, "RuntimeError", conditions,
                              <<>>, <<>>)
             /\ UNCHANGED tablefile
        ELSE IF rows_to_delete.res # "ok" \/ rows_to_delete.out = <<>>
        THEN /\ ret' = RowRet("delete", p, h, g, rows_to_delete.res,
                              conditions, <<>>, <<>>)
             /\ UNCHANGED tablefile
        ELSE /\ tablefile' = [tablefile EXCEPT ![d].lines = w.lines]
             /\ ret' = RowRet("delete", p, h, g, w.res, conditions, <<>>,
                              w.out)

\* the start of a line whose write was cut short: the text is not complete,
\* so decrypting, unpadding or parsing it raises
Torn(line) ==
  Hex([FromHex(line) EXCEPT !.data = SubSeq(@, 1, Len(@) - 1)])

\* what the table file holds when the process dies inside a rewrite loop that
\* would write these lines: the first j of them and, with torn, the start of
\* the next one (the file was emptied by open(..., "w"); writes are buffered)
CutShort(lines, j, torn) ==
  SubSeq(lines, 1, j) \o (IF torn THEN <<Torn(lines[j + 1])>> ELSE <<>>)

\* process p dies: its engine, its DB objects and its tracking dicts are gone
Died(p, d, op, g) ==
  /\ handle' = [handle EXCEPT ![p] = [x \in Handles |-> NoHandle]]
  /\ active_connections' = [active_connections EXCEPT ![p] = <<>>]
  /\ connection_queues' = [connection_queues EXCEPT ![p] = <<>>]
  /\ untouched' = [untouched EXCEPT ![d] = {}]
  /\ ret' = Ret(op, p, g, d, "killed")
  /\ UNCHANGED <<dbdir, keyfile, enqueued>>

\* Table.update, the process dying inside its rewrite loop
update_crash(p, h, g, conditions, updates, j, torn) ==
  LET d == handle[p][g].database_name
      rows_to_update == Search(d, conditions)
      w == UpdateLines(tablefile[d].lines, GetDecryptionKey(d), conditions,
                       updates, NoLines)
  IN /\ Idle(p)
     /\ handle[p][h].built /\ handle[p][g].built
     /\ TableIsConnected(p, h)
     /\ rows_to_update.res = "ok" /\ rows_to_update.out # <<>>
     /\ j < Len(w.lines)
     /\ tablefile' = [tablefile EXCEPT ![d].lines = CutShort(w.lines, j, torn)]
     /\ damaged' = [damaged EXCEPT ![d] = j >= 1]
     /\ Died(p, d, "update_crash", g)

\* Table.delete, the process dying inside its rewrite loop
delete_crash(p, h, g, conditions, j, torn) ==
  LET d == handle[p][g].database_name
      rows_to_delete == Search(d, conditions)
      w == DeleteLines(tablefile[d].lines, GetDecryptionKey(d), conditions,
                       NoLines)
  IN /\ Idle(p)
     /\ handle[p][h].built /\ handle[p][g].built
     /\ TableIsConnected(p, h)
     /\ rows_to_delete.res = "ok" /\ rows_to_delete.out # <<>>
     /\ j < Len(w.lines)
     /\ tablefile' = [tablefile EXCEPT ![d].lines = CutShort(w.lines, j, torn)]
     /\ damaged' = [damaged EXCEPT ![d] = j >= 1]
     /\ Died(p, d, "delete_crash", g)

\* Table._encrypt_data(data, database_name), called on its own
encrypt_data(p, d, data) ==
  /\ Idle(p)
  /\ UNCHANGED <<fs, tracking, handle, enqueued, untouched, damaged>>
  /\ IF ~HasKey(d)
     THEN ret' = [Ret("encrypt_data", p, 0, d, "FileNotFoundError")
                    EXCEPT !.arg = data]
     ELSE IF ~Serializable(data)
     THEN ret' = [Ret("encrypt_data", p, 0, d, "TypeError")
                    EXCEPT !.arg = data]
     ELSE ret' = [Ret("encrypt_data", p, 0, d, "ok")
                    EXCEPT !.arg = data,
                           !.arg2 = <<GetDecryptionKey(d)>>,
                           !.out = <<EncryptData(data, GetDecryptionKey(d))>>]

\* Table._decrypt_data(encrypted_data, database_name), called on what the
\* last _encrypt_data returned; arg and arg2 keep the row and the key of
\* that call
decrypt_data(p, d) ==
  /\ Idle(p)
  /\ ret.op = "encrypt_data" /\ ret.res = "ok"
  /\ UNCHANGED <<fs, tracking, handle, enqueued, untouched, damaged>>
  /\ LET encrypted_data == ret.out[1]
         back == [Ret("decrypt_data", p, 0, d, "ok")
                    EXCEPT !.arg = ret.arg, !.arg2 = ret.arg2]
     IN IF ~HasKey(d)
        THEN ret' = [back EXCEPT !.res = "FileNotFoundError"]
        ELSE IF ~Decrypts(encrypted_data, GetDecryptionKey(d))
        THEN ret' = [back EXCEPT !.res = "ValueError"]
        ELSE ret' = [back EXCEPT
                       !.out = <<DecryptData(encrypted_data,
                                             GetDecryptionKey(d))>>]

(***************************************************************************)
(* What the clients pass in                                                *)
(***************************************************************************)
\* True == 1 in Python, so the first and the last select each other
IdValues == {PyInt(1), PyInt(2), PyBool(TRUE)}

\* the rows a client inserts
Rows == {<<Item("id", v)>> : v \in IdValues}

\* the conditions a client searches, updates and deletes by: the column
\* values of a row, no condition, a column that rows may lack
Conditions == Rows \cup {<<>>, <<Item("name", PyNone)>>}

\* the updates a client applies; the last one cannot be serialized
Updates ==
  {<<Item("name", PyStr("b"))>>, <<Item("id", PyInt(2))>>,
   <<Item("name", PyObject)>>}

\* one row, one condition and one update, where the rows do not matter
OneRow == {<<Item("id", PyInt(1))>>}

\* json scalars: strings, numbers, booleans, null
Scalars ==
  {PyInt(0), PyInt(1), PyFloat(1), PyStr(""), PyStr("a"), PyStr("1"),
   PyBool(TRUE), PyBool(FALSE), PyNone}

\* rows of json scalars over one or two columns, in either order
ScalarRows ==
  {<<>>}
  \cup {<<Item(k, v)>> : k \in {"id", "name"}, v \in Scalars}
  \cup {<<Item("id", v), Item("name", w)>> : v \in Scalars, w \in Scalars}
  \cup {<<Item("name", v), Item("id", w)>> : v \in {PyStr("a")}, w \in Scalars}

(***************************************************************************)
(* Specifications                                                          *)
(***************************************************************************)
\* One process, its DB objects over all databases, every operation.
Next ==
  \E p \in {1} :
    \/ \E d \in Databases, salt \in Salts, iv \in IVs :
         create_database(p, d, 1, salt, iv)
    \/ \E d \in Databases : delete_database(p, d)
    \/ \E h \in Handles, d \in Databases : NewDB(p, h, d)
    \/ \E h \in Handles : connect(p, h)
    \/ \E h \in Handles : admit(p, h)
    \/ \E h \in Handles : disconnect(p, h)
    \/ \E h \in Handles : NewRow(p, h)
    \/ \E h, g \in Handles, row \in OneRow : insert(p, h, g, row)
    \/ \E h, g \in Handles, c \in OneRow : search(p, h, g, c)
    \/ \E h, g \in Handles, c \in OneRow, u \in OneRow : update(p, h, g, c, u)
    \/ \E h, g \in Handles, c \in OneRow : delete(p, h, g, c)

Spec == Init /\ [][Next]_vars

\* Several processes, each with its own engine and DB objects, on one
\* database: the connection protocol and the secret file.
NextAdmission ==
  \E p \in Procs, d \in {1} :
    \/ \E db_key \in Secrets, salt \in Salts, iv \in IVs :
         create_database(p, d, db_key, salt, iv)
    \/ delete_database(p, d)
    \/ decrypt_key(p, d)
    \/ \E h \in Handles : NewDB(p, h, d)
    \/ \E h \in Handles : connect(p, h)
    \/ \E h \in Handles : admit(p, h)
    \/ \E h \in Handles : disconnect(p, h)

SpecAdmission == Init /\ [][NextAdmission]_vars

\* The same, with the scheduling a running process has: a caller inside the
\* poll loop of connect keeps polling, so it leaves the loop once the head of
\* the queue is its pid.  No client is bound to make any call.
SpecAdmissionFair ==
  SpecAdmission /\ \A p \in Procs, h \in Handles : WF_vars(admit(p, h))

\* One process with one DB object and the table of one database.
NextTable ==
  \E p \in {1}, h \in {1}, d \in {1} :
    \/ \E salt \in Salts, iv \in IVs : create_database(p, d, 1, salt, iv)
    \/ delete_database(p, d)
    \/ NewDB(p, h, d)
    \/ connect(p, h)
    \/ admit(p, h)
    \/ disconnect(p, h)
    \/ NewRow(p, h)
    \/ \E row \in Rows : insert(p, h, h, row)
    \/ \E c \in Conditions : search(p, h, h, c)
    \/ \E c \in Conditions, u \in Updates : update(p, h, h, c, u)
    \/ \E c \in Conditions : delete(p, h, h, c)

SpecTable == Init /\ [][NextTable]_vars

\* The same, with the process dying inside a rewrite and starting again.
NextCrash ==
  \/ NextTable
  \/ \E p \in {1}, h \in {1}, c \in Conditions, j \in 0..MaxRows,
        torn \in BOOLEAN :
        \/ \E u \in Updates : update_crash(p, h, h, c, u, j, torn)
        \/ delete_crash(p, h, h, c, j, torn)

SpecCrash == Init /\ [][NextCrash]_vars

\* The row codec on its own: rows of json scalars encrypted and decrypted
\* under the key of a database that may be deleted and created again.
NextCodec ==
  \E p \in {1}, d \in {1} :
    \/ \E db_key \in Secrets, salt \in Salts, iv \in IVs :
         create_database(p, d, db_key, salt, iv)
    \/ delete_database(p, d)
    \/ \E data \in ScalarRows : encrypt_data(p, d, data)
    \/ decrypt_data(p, d)

SpecCodec == Init /\ [][NextCodec]_vars

(***************************************************************************)
(* Properties                                                              *)
(***************************************************************************)
\* the DB objects (process, object) that are connected to database d
Connected(d) ==
  {c \in Procs \X Handles :
     /\ handle[c[1]][c[2]].built
     /\ handle[c[1]][c[2]].database_name = d
     /\ is_connected(c[1], c[2])}

\* the engine of process p holds database d as Active(p)
ActiveFor(p, d) ==
  d \in DOMAIN active_connections[p] /\ active_connections[p][d] = p

\* the rows a table file decrypts to, line by line, under the current key
StoredRows(d) ==
  [n \in 1..Len(tablefile[d].lines) |->
     DecryptData(tablefile[d].lines[n], GetDecryptionKey(d))]

\* C1: at most one caller is connected to a database at any time.
MutualExclusion == \A d \in Databases : Cardinality(Connected(d)) <= 1

\* C2: an insert, search, update or delete that gets to the table file of a
\* database runs only while the engine's active marker for that database is
\* the caller's identifier.
RowOpsOnlyWhenActive ==
  /\ ret.op \in {"insert", "search", "update", "delete"}
  /\ ret.res \notin {"RuntimeError", "FileNotFoundError"}
  => ActiveFor(ret.p, ret.d)

\* C3: a caller is admitted only when no caller that is still waiting on the
\* same database enqueued before it.
FifoAdmission ==
  [][ret'.op = "admit" => Head(enqueued[ret'.d]) = <<ret'.p, ret'.h>>]_vars

\* C4: a disconnect called while the database is not Active for the caller
\* fails with RuntimeError and leaves the queue and the active marker alone.
DisconnectOnlyWhenActive ==
  [][ret'.op = "disconnect" /\ ~ActiveFor(ret'.p, ret'.d)
       => ret'.res = "RuntimeError" /\ UNCHANGED tracking]_vars

\* C5: is_connected() is true exactly when the engine holds the database as
\* Active with the connection's identifier.  The DB objects of one process
\* share its identifier, so the claim is read in their favour: a connected
\* object's database is Active for its process, and a database that is
\* Active for a process has a connected object of that process.
IsConnectedIffActive ==
  \A p \in Procs, d \in Databases :
    /\ \A h \in Handles :
         /\ handle[p][h].built
         /\ handle[p][h].database_name = d
         /\ is_connected(p, h)
         => ActiveFor(p, d)
    /\ ActiveFor(p, d) => \E h \in Handles : <<p, h>> \in Connected(d)

\* C6: create_database on a database that exists fails with FileExistsError
\* and changes no file, no connection tracking and no DB object.
CreateExistingFails ==
  [][ret'.op = "create_database" /\ dbdir[ret'.d]
       => /\ ret'.res = "FileExistsError"
          /\ UNCHANGED <<fs, tracking, handle>>]_vars

\* a create_database has just failed on a database that has a stored row and
\* a connected DB object
CreateExistingFailsWitness ==
  /\ ret.op = "create_database" /\ ret.res = "FileExistsError"
  /\ tablefile[ret.d].lines # <<>>
  /\ Connected(ret.d) # {}

\* C7: delete_database on an existing database to which a caller is
\* connected fails with RuntimeError and removes no file and no tracking.
DeleteRefusedWhileConnected ==
  [][ret'.op = "delete_database" /\ dbdir[ret'.d] /\ Connected(ret'.d) # {}
       => ret'.res = "RuntimeError" /\ UNCHANGED <<fs, tracking>>]_vars

\* C8: decrypting the bytes of database.key returns the secret that was
\* encrypted into them.
SecretRoundTrip ==
  ret.op = "decrypt_key"
  => /\ ret.res = "ok"
     /\ \E encrypted_key \in keyfile[ret.d] :
          ret.out = <<encrypted_key.data.data>>

\* C9: a row of json scalars that was encrypted under the row key of a
\* database decrypts, under the same key, to the same row: the same columns
\* in the same order with values of the same type.
RowRoundTrip ==
  /\ ret.op = "decrypt_data"
  /\ HasKey(ret.d)
  /\ ret.arg2 = <<GetDecryptionKey(ret.d)>>
  => ret.res = "ok" /\ ret.out = <<ret.arg>>

\* a row with a string, then a boolean, came back from the round trip
RowRoundTripWitness ==
  /\ ret.op = "decrypt_data" /\ ret.res = "ok"
  /\ ret.arg = <<Item("name", PyStr("a")), Item("id", PyBool(TRUE))>>
  /\ ret.arg2 = <<GetDecryptionKey(ret.d)>>

\* C10: a search by the column values of a row that was inserted, and that no
\* update or delete has selected since, returns the row; it returns that row
\* alone when no other stored row has these values.
InsertThenSearch ==
  /\ ret.op = "search"
  /\ ret.res # "RuntimeError"
  /\ ret.arg \in untouched[ret.d]
  => /\ ret.res = "ok"
     /\ \E n \in 1..Len(ret.out) : ret.out[n] = ret.arg
     /\ Cardinality({n \in 1..Len(StoredRows(ret.d)) :
                       Matches(StoredRows(ret.d)[n], ret.arg)}) = 1
        => ret.out = <<ret.arg>>

\* every line of the table file of d decrypts and parses under the row key
\* that database.key gives now
Decodable(d) ==
  /\ HasKey(d)
  /\ \A n \in 1..Len(tablefile[d].lines) :
       Decrypts(tablefile[d].lines[n], GetDecryptionKey(d))

\* C11: an update leaves the table with as many rows as before, and every
\* row that the conditions do not select where it was, with its columns and
\* values as before.
UpdateFrame ==
  [][\A d \in Databases :
       ret'.op = "update" /\ ret'.d = d /\ Decodable(d)
       => /\ Len(tablefile'[d].lines) = Len(tablefile[d].lines)
          /\ \A n \in 1..Len(tablefile[d].lines) :
               ~Matches(StoredRows(d)[n], ret'.arg)
               => StoredRows(d)'[n] = StoredRows(d)[n]]_vars

HoldsEqual(row, conditions) ==
  \A n \in 1..Len(conditions) :
    /\ conditions[n].k \in Keys(row)
    /\ PyEq(Get(row, conditions[n].k), conditions[n].v)

GetEquals(row, conditions) ==
  \A n \in 1..Len(conditions) :
    LET held == IF conditions[n].k \in Keys(row)
                THEN Get(row, conditions[n].k) ELSE PyNone
    IN PyEq(held, conditions[n].v)

AtRestDecodes ==
  \A d \in Databases : tablefile[d].lines # <<>> => Decodable(d)

\* an update has failed part-way and has left a line in the table file
AtRestDecodesWitness ==
  /\ ret.op = "update" /\ ret.res = "TypeError"
  /\ tablefile[ret.d].lines # <<>>

\* C15: after a process died inside the rewrite of an update or delete with
\* some and not all rows written back, the next search, update or delete
\* that reads the table file fails with ValueError (a line that does not
\* decrypt or parse).
CrashSurfacesAsCorrupt ==
  [][/\ ret'.op \in {"search", "update", "delete"}
     /\ ret'.res # "RuntimeError"
     /\ damaged[ret'.d]
     => ret'.res = "ValueError"]_vars

\* C16: an update or delete that ends with an error leaves the table file
\* with the rows it had, in the order they had.
NoPartialApplication ==
  [][\A d \in Databases :
       /\ ret'.op \in {"update", "delete"} /\ ret'.d = d
       /\ ret'.res # "ok"
       /\ Decodable(d)
       => Decodable(d)' /\ StoredRows(d)' = StoredRows(d)]_vars

\* C17: an insert, search, update or delete called through a class whose DB
\* object is not connected fails with RuntimeError and changes no table file.
RowOpsNeedConnection ==
  [][/\ ret'.op \in {"insert", "search", "update", "delete"}
     /\ ~is_connected(ret'.p, ret'.h)
     => ret'.res = "RuntimeError" /\ UNCHANGED tablefile]_vars

\* a search has failed on a DB object that is not connected, over a table
\* file that holds a row
RowOpsNeedConnectionWitness ==
  /\ ret.op = "search" /\ ret.res = "RuntimeError"
  /\ ~is_connected(ret.p, ret.h)
  /\ tablefile[ret.d].lines # <<>>

\* the rows at the places hit of a sequence of rows, in their order
Picked(rows, hit) ==
  [n \in 1..Cardinality(hit) |->
     rows[CHOOSE m \in hit : Cardinality({x \in hit : x < m}) = n - 1]]

\* C18: an update that returns, returns the rows its conditions selected, in
\* file order, each with the columns of the updates set to the new values
\* and its other columns as they were; the table file holds these rows in
\* the places of the selected ones.
UpdateReturnsUpdated ==
  [][\A d \in Databases :
       /\ ret'.op = "update" /\ ret'.d = d /\ ret'.res = "ok"
       /\ Decodable(d)
       => LET old == StoredRows(d)
              hit == {n \in 1..Len(old) : Matches(old[n], ret'.arg)}
              sel == SelectSeq(old, LAMBDA r : Matches(r, ret'.arg))
          IN /\ Len(ret'.out) = Len(sel)
             /\ \A n \in 1..Len(sel) :
                  /\ Keys(ret'.out[n]) = Keys(sel[n]) \cup Keys(ret'.arg2)
                  /\ \A k \in Keys(ret'.arg2) :
                       Get(ret'.out[n], k) = Get(ret'.arg2, k)
                  /\ \A k \in Keys(sel[n]) \ Keys(ret'.arg2) :
                       Get(ret'.out[n], k) = Get(sel[n], k)
             /\ Decodable(d)'
             /\ Len(StoredRows(d)') = Len(old)
             /\ ret'.out = Picked(StoredRows(d)', hit)]_vars

\* an update of the second of two stored rows has returned it with the new
\* column added
UpdateReturnsUpdatedWitness ==
  /\ ret.op = "update" /\ ret.res = "ok"
  /\ ret.arg = <<Item("id", PyInt(2))>>
  /\ ret.out = <<<<Item("id", PyInt(2)), Item("name", PyStr("b"))>>>>
  /\ Decodable(ret.d)
  /\ Len(StoredRows(ret.d)) = 2
  /\ StoredRows(ret.d)[2] = ret.out[1]

\* no process holds database d: no engine has its marker set and no DB object
\* is connected to it
NoHolder(d) ==
  /\ Connected(d) = {}
  /\ \A p \in Procs :
       d \in DOMAIN active_connections[p] => active_connections[p][d] = None

\* C19: delete_database of a database that does not exist fails with
\* FileNotFoundError and changes nothing; of a database that exists and that
\* no process holds, it removes the directory with the secret file and the
\* table file and drops the caller's queue and marker for it; and while a
\* database does not exist a connect on it ends with FileNotFoundError (or
\* RuntimeError on a DB object that is connected) and no DB object becomes
\* connected to it.
DeleteDatabaseCleans ==
  [][/\ ret'.op = "delete_database" /\ ~dbdir[ret'.d]
        => /\ ret'.res = "FileNotFoundError"
           /\ UNCHANGED <<fs, tracking, handle>>
     /\ \A d \in Databases, p \in Procs :
          /\ ret'.op = "delete_database" /\ ret'.d = d /\ ret'.p = p
          /\ dbdir[d] /\ NoHolder(d)
          => /\ ret'.res = "ok"
             /\ ~dbdir'[d] /\ keyfile'[d] = {} /\ ~tablefile'[d].exists
             /\ d \notin DOMAIN active_connections'[p]
             /\ d \notin DOMAIN connection_queues'[p]
     /\ ret'.op \in {"connect", "admit"} /\ ~dbdir[ret'.d]
        => ret'.res \in {"waiting", "FileNotFoundError", "RuntimeError"}
     /\ \A p \in Procs, h \in Handles :
          /\ handle'[p][h].built /\ handle'[p][h].connected
          /\ ~dbdir'[handle'[p][h].database_name]
          => handle[p][h].built /\ handle[p][h].connected]_vars

\* C20: connect on a DB object that is connected fails with RuntimeError and
\* changes neither the queue, nor the marker, nor the object, nor the callers
\* waiting.
ConnectTwiceFails ==
  [][ret'.op = "connect" /\ is_connected(ret'.p, ret'.h)
       => /\ ret'.res = "RuntimeError"
          /\ UNCHANGED <<tracking, handle, enqueued>>]_vars

\* a connect has failed on a connected DB object whose process id is in the
\* queue once
ConnectTwiceFailsWitness ==
  /\ ret.op = "connect" /\ ret.res = "RuntimeError"
  /\ is_connected(ret.p, ret.h)
  /\ connection_queues[ret.p][ret.d] = <<ret.p>>

\* the DB objects of process p that were promoted on database d and have not
\* disconnected
Promoted(p, d) == {h \in Handles : <<p, h>> \in Connected(d)}

\* C21: in every engine and for every database it tracks, a set marker is
\* the identifier at the head of the queue, and the marker is set exactly
\* when a caller that was promoted has not disconnected; a disconnect that
\* succeeds takes the head off the queue and resets the marker.
ActiveIsHeadOfQueue ==
  [][/\ \A p \in Procs, d \in Databases :
          d \in DOMAIN active_connections'[p]
          => /\ active_connections'[p][d] # None
                => /\ d \in DOMAIN connection_queues'[p]
                   /\ connection_queues'[p][d] # <<>>
                   /\ Head(connection_queues'[p][d]) =
                        active_connections'[p][d]
             /\ active_connections'[p][d] # None <=> Promoted(p, d)' # {}
     /\ \A p \in Procs, d \in Databases :
          /\ ret'.op = "disconnect" /\ ret'.res = "ok"
          /\ ret'.p = p /\ ret'.d = d
          => /\ connection_queues'[p][d] = Tail(connection_queues[p][d])
             /\ active_connections'[p][d] = None]_vars

\* a caller inside the poll loop of connect is eventually admitted
WaitingLeadsToAdmitted ==
  \A p \in Procs, h \in Handles :
    handle[p][h].pc = "waiting" ~> is_connected(p, h)

\* a connect of a DB object that is not connected, on a database that exists,
\* does not end with an error: the caller is in the queue, inside the poll
\* loop
ConnectEnqueues ==
  [][\A p \in Procs, h \in Handles :
       /\ ret'.op = "connect" /\ ret'.p = p /\ ret'.h = h
       /\ dbdir[ret'.d]
       /\ ~is_connected(p, h)
       => handle'[p][h].pc = "waiting"]_vars

\* C22: every caller that calls connect on a database that exists is
\* eventually admitted: the call puts it in the queue, and a caller in the
\* queue becomes connected.
AdmissionLiveness == ConnectEnqueues /\ WaitingLeadsToAdmitted

\* C23: while a database has its secret file, only a delete_database that
\* succeeds on it changes the bytes of the file, and with them the row key.
SecretNeverRotated ==
  [][\A d \in Databases :
       /\ HasKey(d)
       /\ ~(ret'.op = "delete_database" /\ ret'.d = d /\ ret'.res = "ok")
       => /\ keyfile'[d] = keyfile[d]
          /\ GetDecryptionKey(d)' = GetDecryptionKey(d)]_vars

\* a delete_database has been refused on a database that holds a row, after
\* which the row still decrypts
SecretNeverRotatedWitness ==
  /\ ret.op = "delete_database" /\ ret.res = "RuntimeError"
  /\ tablefile[ret.d].lines # <<>>
  /\ Decodable(ret.d)
====
